---- MODULE Spec2Model ----
(***************************************************************************)
(* Model of app/static/resources/js/main_page.js: the change handler of    *)
(* the file input "#upload-file-input", the upload request it issues and   *)
(* the .done callback that handles the response.                           *)
(*                                                                         *)
(* The browser runs one task at a time to completion, so every handler is  *)
(* one atomic action.  File names are sequences of one-character strings;  *)
(* a response body is a sequence of JSON tokens.                           *)
(***************************************************************************)
EXTENDS Integers, Sequences, FiniteSets, TLC

\* ------------------------------------------------------------------ bounds
\* Number of change events one page load handles.
MaxChanges == 3

\* ----------------------------------------------------- page configuration
\* MAX_AUDIO_FILE_SIZE["Value"]: the byte limit supplied by the page.
MAX_AUDIO_FILE_SIZE_Value == 2

\* ACCEPTED_FILE_TYPES: the array of accepted extensions supplied by the page.
ACCEPTED_FILE_TYPES == << <<"W", "A", "V">>, <<"M", "P", "3">> >>

\* ---------------------------------------------------------------- strings
LowerCaseLetters == <<"a", "t", "v", "w", "x">>
UpperCaseLetters == <<"A", "T", "V", "W", "X">>

\* String.prototype.toUpperCase, one character.
toUpperCaseChar(c) ==
    IF \E i \in DOMAIN LowerCaseLetters : LowerCaseLetters[i] = c
    THEN UpperCaseLetters[CHOOSE i \in DOMAIN LowerCaseLetters : LowerCaseLetters[i] = c]
    ELSE c

\* Mutant: toUpperCase that leaves the string as it is.
toUpperCaseIdentity(s) == s

\* String.prototype.toUpperCase.
toUpperCase(s) == [i \in 1..Len(s) |-> toUpperCaseChar(s[i])]

\* String.prototype.split(sep): the pieces of s between the separators.
RECURSIVE split(_, _)
split(s, sep) ==
    IF \A i \in 1..Len(s) : s[i] # sep
    THEN <<s>>
    ELSE LET i == CHOOSE k \in 1..Len(s) :
                      s[k] = sep /\ \A j \in 1..(k - 1) : s[j] # sep
         IN  <<SubSeq(s, 1, i - 1)>> \o split(SubSeq(s, i + 1, Len(s)), sep)

\* Mutant: the first piece instead of the last.
shift(arr) == arr[1]

\* Mutant: a name without a separator has no extension.
popOrEmpty(arr) == IF Len(arr) > 1 THEN arr[Len(arr)] ELSE <<>>

\* Array.prototype.pop: the last piece.
pop(arr) == arr[Len(arr)]

\* Array.prototype.includes.
includes(arr, x) == \E i \in DOMAIN arr : arr[i] = x

\* ------------------------------------------------------------------ files
FileNames ==
    { <<"a", ".", "w", "a", "v">>,
      <<"a", ".", "W", "A", "V">>,
      <<"w", "a", "v", ".", "t", "x", "t">>,
      <<"w", "a", "v", ".", "T", "X", "T">>,
      <<"w", "a", "v">>,
      <<"t", "x", "t">>,
      <<"a", ".", "t", "x", "t", ".", "w", "a", "v">> }

FileSizes ==
    { MAX_AUDIO_FILE_SIZE_Value - 1, MAX_AUDIO_FILE_SIZE_Value,
      MAX_AUDIO_FILE_SIZE_Value + 1 }

\* The File objects the user can select.
Files == [name : FileNames, size : FileSizes]

\* The FileList of the input: no file, or the one selected file.
FileLists == {<<>>} \cup { <<f>> : f \in Files }

\* uploadFileInput.val(): "" with no file, else a fake path ending in the name.
val(input) ==
    IF Len(input.files) = 0 THEN <<>> ELSE <<"/">> \o input.files[1].name

\* ------------------------------------------------------------ outcomeText
ErrorText == "error-text"
SuccessText == "success-text"

NoFileMsg == "You must select a file."
BadTypeMsg == "File uploaded not of accepted file type. Accepted: WAV,MP3."
TooBigMsg == "File is too big; please select a file that is smaller than 2 B."

\* A JavaScript value read from the response: a string or undefined.
Undefined == [t |-> "undefined", v |-> ""]
Str(s) == [t |-> "string", v |-> s]

\* jQuery .text(value): sets the text; .text(undefined) is the getter and sets
\* nothing.
text(o, value) ==
    IF value.t = "undefined" THEN o ELSE [o EXCEPT !.text = value.v]

\* jQuery .addClass(c).
addClass(o, c) == [o EXCEPT !.classes = @ \cup {c}]

\* jQuery .removeClass(c).
removeClass(o, c) == [o EXCEPT !.classes = @ \ {c}]

\* Mutant: a reset that forgets the error class.
ResetKeepError(o) == removeClass(text(o, Str("")), SuccessText)

\* Lines 9-11: reset the outcome text box.
ResetOutcome(o) ==
    removeClass(removeClass(text(o, Str("")), ErrorText), SuccessText)

\* --------------------------------------------------------- change handler
\* Line 14: uploadFileInput.val() === "".
noFileSelected(input) == val(input) = <<>>

\* Line 22: name.split(".").pop().toUpperCase().
extension(file) == toUpperCase(pop(split(file.name, ".")))

\* Line 22: the extension is not one of ACCEPTED_FILE_TYPES.
badExtension(input) == ~includes(ACCEPTED_FILE_TYPES, extension(input.files[1]))

\* Mutant: a limit that is one byte too generous.
tooBigOffByOne(input) == input.files[1].size > MAX_AUDIO_FILE_SIZE_Value + 1

\* Mutant: a comparison that also rejects a file of exactly the limit.
tooBigOrEqual(input) == input.files[1].size >= MAX_AUDIO_FILE_SIZE_Value

\* Line 30: files[0].size > MAX_AUDIO_FILE_SIZE["Value"].
tooBig(input) == input.files[1].size > MAX_AUDIO_FILE_SIZE_Value

\* Mutant: the message is set but the error class is forgotten.
showErrorNoClass(o, msg) == text(o, Str(msg))

\* Lines 16-17, 24-25, 32-33: show an error.
showError(o, msg) == addClass(text(o, Str(msg)), ErrorText)

\* Lines 41-42: the FormData with the file under field "file".
FormData(input) == [file |-> input.files[1]]

\* Lines 45-50: the settings of the $.ajax call.
ajaxSettings(input) ==
    [url |-> "/api/upload-file", method |-> "POST", data |-> FormData(input)]

\* Mutant: the size check shows its error but does not return.
ChangeHandlerNoReturn(o, input) ==
    LET cleared == ResetOutcome(o)
    IN  IF noFileSelected(input)
        THEN [outcomeText |-> showError(cleared, NoFileMsg), ajax |-> <<>>]
        ELSE IF badExtension(input)
        THEN [outcomeText |-> showError(cleared, BadTypeMsg), ajax |-> <<>>]
        ELSE [outcomeText |-> text(IF tooBig(input)
                                   THEN showError(cleared, TooBigMsg)
                                   ELSE cleared, Str("")),
              ajax |-> <<ajaxSettings(input)>>]

\* Mutant: the size check runs before the extension check.
ChangeHandlerSizeFirst(o, input) ==
    LET cleared == ResetOutcome(o)
    IN  IF noFileSelected(input)
        THEN [outcomeText |-> showError(cleared, NoFileMsg), ajax |-> <<>>]
        ELSE IF tooBig(input)
        THEN [outcomeText |-> showError(cleared, TooBigMsg), ajax |-> <<>>]
        ELSE IF badExtension(input)
        THEN [outcomeText |-> showError(cleared, BadTypeMsg), ajax |-> <<>>]
        ELSE [outcomeText |-> text(cleared, Str("")),
              ajax |-> <<ajaxSettings(input)>>]

\* Mutant: the handler does not reset the box when it starts.
ChangeHandlerNoReset(o, input) ==
    IF noFileSelected(input)
    THEN [outcomeText |-> showError(o, NoFileMsg), ajax |-> <<>>]
    ELSE IF badExtension(input)
    THEN [outcomeText |-> showError(o, BadTypeMsg), ajax |-> <<>>]
    ELSE IF tooBig(input)
    THEN [outcomeText |-> showError(o, TooBigMsg), ajax |-> <<>>]
    ELSE [outcomeText |-> text(o, Str("")), ajax |-> <<ajaxSettings(input)>>]

\* Lines 7-51: the change handler up to the $.ajax call.  The result is the
\* outcome text box it leaves and the requests it issued.
ChangeHandler(o, input) ==
    LET cleared == ResetOutcome(o)
    IN  IF noFileSelected(input)
        THEN [outcomeText |-> showError(cleared, NoFileMsg), ajax |-> <<>>]
        ELSE IF badExtension(input)
        THEN [outcomeText |-> showError(cleared, BadTypeMsg), ajax |-> <<>>]
        ELSE IF tooBig(input)
        THEN [outcomeText |-> showError(cleared, TooBigMsg), ajax |-> <<>>]
        ELSE [outcomeText |-> text(cleared, Str("")),
              ajax |-> <<ajaxSettings(input)>>]

\* -------------------------------------------------------------- responses
Punctuation == {"{", "}", ":", ","}

\* The response bodies the server can send, as JSON tokens.
Bodies ==
    { <<"{", "outcome", ":", "error", ",", "msg", ":", "bad format", "}">>,
      <<"{", "outcome", ":", "ok", ",", "msg", ":", "done", ",",
        "url", ":", "/next", "}">>,
      <<"{", "msg", ":", "done", ",", "url", ":", "/next", "}">>,
      <<"{", "outcome", ":", "ok", ",", "msg", ":", "done", "}">>,
      <<"{", "outcome", ":", "error", "}">>,
      <<"{", "outcome", ":", "error", ",", "msg", ":", "bad format">>,
      <<>> }

SyntaxError == [type |-> "SyntaxError", fields |-> <<>>]

\* The members of a JSON object: key : value {, key : value}.
RECURSIVE parseMembers(_)
parseMembers(toks) ==
    IF /\ Len(toks) >= 3
       /\ toks[1] \notin Punctuation
       /\ toks[2] = ":"
       /\ toks[3] \notin Punctuation
    THEN IF Len(toks) = 3
         THEN [ok |-> TRUE, fields |-> << <<toks[1], toks[3]>> >>]
         ELSE IF toks[4] = ","
         THEN LET rest == parseMembers(SubSeq(toks, 5, Len(toks)))
              IN  [ok |-> rest.ok,
                   fields |-> << <<toks[1], toks[3]>> >> \o rest.fields]
         ELSE [ok |-> FALSE, fields |-> <<>>]
    ELSE [ok |-> FALSE, fields |-> <<>>]

\* Line 53: JSON.parse(data).  A string literal, an object of string members,
\* or a SyntaxError.
JSONParse(toks) ==
    IF Len(toks) = 1 /\ toks[1] \notin Punctuation
    THEN [type |-> "string", fields |-> <<>>]
    ELSE IF Len(toks) = 2 /\ toks[1] = "{" /\ toks[2] = "}"
    THEN [type |-> "object", fields |-> <<>>]
    ELSE IF Len(toks) > 2 /\ toks[1] = "{" /\ toks[Len(toks)] = "}"
    THEN LET m == parseMembers(SubSeq(toks, 2, Len(toks) - 1))
         IN  IF m.ok THEN [type |-> "object", fields |-> m.fields]
             ELSE SyntaxError
    ELSE SyntaxError

\* data[key]: the last member of that name, or undefined.
Get(data, key) ==
    LET at == { i \in DOMAIN data.fields : data.fields[i][1] = key }
    IN  IF at = {} THEN Undefined
        ELSE Str(data.fields[CHOOSE i \in at : \A j \in at : j <= i][2])

\* Line 67: the string assigned to window.location.href.
toHref(value) == IF value.t = "undefined" THEN "undefined" ELSE value.v

\* Mutant: the error branch also redirects.
DoneCallbackAlwaysRedirect(o, href, body) ==
    LET data == JSONParse(body)
    IN  IF data.type = "SyntaxError"
        THEN [outcomeText |-> o, href |-> href, branch |-> "throw"]
        ELSE IF Get(data, "outcome") = Str("error")
        THEN [outcomeText |-> addClass(text(o, Get(data, "msg")), ErrorText),
              href |-> toHref(Get(data, "url")), branch |-> "error"]
        ELSE [outcomeText |-> addClass(text(o, Get(data, "msg")), SuccessText),
              href |-> toHref(Get(data, "url")), branch |-> "success"]

\* Mutant: a body that does not parse is caught and reported in the box.
DoneCallbackCatch(o, href, body) ==
    LET data == JSONParse(body)
    IN  IF data.type = "SyntaxError"
        THEN [outcomeText |-> addClass(text(o, Str("Upload failed.")), ErrorText),
              href |-> href, branch |-> "throw"]
        ELSE IF Get(data, "outcome") = Str("error")
        THEN [outcomeText |-> addClass(text(o, Get(data, "msg")), ErrorText),
              href |-> href, branch |-> "error"]
        ELSE [outcomeText |-> addClass(text(o, Get(data, "msg")), SuccessText),
              href |-> toHref(Get(data, "url")), branch |-> "success"]

\* Mutant: the callback resets the box before it shows the response.
DoneCallbackResets(o, href, body) ==
    LET data == JSONParse(body)
        cleared == ResetOutcome(o)
    IN  IF data.type = "SyntaxError"
        THEN [outcomeText |-> o, href |-> href, branch |-> "throw"]
        ELSE IF Get(data, "outcome") = Str("error")
        THEN [outcomeText |-> addClass(text(cleared, Get(data, "msg")), ErrorText),
              href |-> href, branch |-> "error"]
        ELSE [outcomeText |-> addClass(text(cleared, Get(data, "msg")), SuccessText),
              href |-> toHref(Get(data, "url")), branch |-> "success"]

\* Mutant: the comparison is inverted.
DoneCallbackInverted(o, href, body) ==
    LET data == JSONParse(body)
    IN  IF data.type = "SyntaxError"
        THEN [outcomeText |-> o, href |-> href, branch |-> "throw"]
        ELSE IF Get(data, "outcome") # Str("error")
        THEN [outcomeText |-> addClass(text(o, Get(data, "msg")), ErrorText),
              href |-> href, branch |-> "error"]
        ELSE [outcomeText |-> addClass(text(o, Get(data, "msg")), SuccessText),
              href |-> toHref(Get(data, "url")), branch |-> "success"]

\* Lines 51-69: the .done callback.  The result is the outcome text box and
\* the location it leaves, and the branch taken (JSON.parse threw, the error
\* branch, the success branch).
DoneCallback(o, href, body) ==
    LET data == JSONParse(body)
    IN  IF data.type = "SyntaxError"
        THEN [outcomeText |-> o, href |-> href, branch |-> "throw"]
        ELSE IF Get(data, "outcome") = Str("error")
        THEN [outcomeText |-> addClass(text(o, Get(data, "msg")), ErrorText),
              href |-> href, branch |-> "error"]
        ELSE [outcomeText |-> addClass(text(o, Get(data, "msg")), SuccessText),
              href |-> toHref(Get(data, "url")), branch |-> "success"]

\* ------------------------------------------------------------------ state
VARIABLES
    uploadFileInput,  \* the file input: its FileList
    outcomeText,      \* the outcome text box: its text and its classes
    requests,         \* the upload requests in flight
    location,         \* window.location.href
    loaded,           \* the page has not been unloaded by a navigation
    invocations,      \* history: the stage of every change-handler invocation
    updates,          \* history: messages shown since the last reset
    last              \* history: the task that ran last

vars == <<uploadFileInput, outcomeText, requests, location, loaded,
          invocations, updates, last>>

\* The address of the main page.
MainPage == "/"

NoTask ==
    [kind |-> "load", id |-> 0, before |-> [text |-> "", classes |-> {}],
     hrefBefore |-> MainPage, issued |-> {}, body |-> <<>>]

Init ==
    /\ uploadFileInput = [files |-> <<>>]
    /\ outcomeText = [text |-> "", classes |-> {}]
    /\ requests = {}
    /\ location = MainPage
    /\ loaded = TRUE
    /\ invocations = <<>>
    /\ updates = 0
    /\ last = NoTask

\* Mutant: a new selection aborts the requests still in flight.
ChangeAbortsEarlier(files) ==
    /\ loaded
    /\ Len(invocations) < MaxChanges
    /\ files # uploadFileInput.files
    /\ LET input == [files |-> files]
           id == Len(invocations) + 1
           res == ChangeHandler(outcomeText, input)
           issued == { [id |-> id, settings |-> res.ajax[i]] :
                          i \in DOMAIN res.ajax }
       IN  /\ uploadFileInput' = input
           /\ outcomeText' = res.outcomeText
           /\ requests' = issued
           /\ invocations' =
                 Append(invocations,
                        IF issued = {} THEN "Rejected" ELSE "Uploading")
           /\ updates' = IF issued = {} THEN 1 ELSE 0
           /\ last' = [kind |-> "change", id |-> id, before |-> outcomeText,
                       hrefBefore |-> location, issued |-> issued,
                       body |-> <<>>]
    /\ UNCHANGED <<location, loaded>>

\* Lines 7-51: the user changes the selection (the change event fires only
\* when the selection differs from the one before) and the change handler
\* runs.
Change(files) ==
    /\ loaded
    /\ Len(invocations) < MaxChanges
    /\ files # uploadFileInput.files
    /\ LET input == [files |-> files]
           id == Len(invocations) + 1
           res == ChangeHandler(outcomeText, input)
           issued == { [id |-> id, settings |-> res.ajax[i]] :
                          i \in DOMAIN res.ajax }
       IN  /\ uploadFileInput' = input
           /\ outcomeText' = res.outcomeText
           /\ requests' = requests \cup issued
           /\ invocations' =
                 Append(invocations,
                        IF issued = {} THEN "Rejected" ELSE "Uploading")
           /\ updates' = IF issued = {} THEN 1 ELSE 0
           /\ last' = [kind |-> "change", id |-> id, before |-> outcomeText,
                       hrefBefore |-> location, issued |-> issued,
                       body |-> <<>>]
    /\ UNCHANGED <<location, loaded>>

\* Lines 51-69: the server answers a request with a 2xx status and a body,
\* and the .done callback runs.
Done(r, body) ==
    /\ loaded
    /\ r \in requests
    /\ LET res == DoneCallback(outcomeText, location, body)
       IN  /\ outcomeText' = res.outcomeText
           /\ location' = res.href
           /\ invocations' =
                 [invocations EXCEPT ![r.id] =
                     IF res.branch = "throw" THEN "Unhandled"
                     ELSE IF res.branch = "error" THEN "Failed"
                     ELSE "Succeeded"]
           /\ updates' = IF res.branch = "throw" THEN updates ELSE updates + 1
    /\ requests' = requests \ {r}
    /\ last' = [kind |-> "done", id |-> r.id, before |-> outcomeText,
                hrefBefore |-> location, issued |-> {}, body |-> body]
    /\ UNCHANGED <<uploadFileInput, loaded>>

\* Mutant: a .fail handler reports the failure in the box.
FailShowsError(r) ==
    /\ loaded
    /\ r \in requests
    /\ requests' = requests \ {r}
    /\ outcomeText' = addClass(text(outcomeText, Str("Upload failed.")), ErrorText)
    /\ invocations' = [invocations EXCEPT ![r.id] = "Unhandled"]
    /\ last' = [kind |-> "fail", id |-> r.id, before |-> outcomeText,
                hrefBefore |-> location, issued |-> {}, body |-> <<>>]
    /\ UNCHANGED <<uploadFileInput, location, loaded, updates>>

\* Lines 45-51: the request fails (network failure or a non-2xx status);
\* there is no .fail callback, so nothing runs.
Fail(r) ==
    /\ loaded
    /\ r \in requests
    /\ requests' = requests \ {r}
    /\ invocations' = [invocations EXCEPT ![r.id] = "Unhandled"]
    /\ last' = [kind |-> "fail", id |-> r.id, before |-> outcomeText,
                hrefBefore |-> location, issued |-> {}, body |-> <<>>]
    /\ UNCHANGED <<uploadFileInput, outcomeText, location, loaded, updates>>

\* Line 67: the navigation started by the assignment to window.location.href
\* completes and the page, with its handlers and callbacks, is gone.
Unload ==
    /\ loaded
    /\ location # MainPage
    /\ loaded' = FALSE
    /\ last' = [kind |-> "unload", id |-> 0, before |-> outcomeText,
                hrefBefore |-> location, issued |-> {}, body |-> <<>>]
    /\ UNCHANGED <<uploadFileInput, outcomeText, requests, location,
                   invocations, updates>>

Next ==
    \/ \E files \in FileLists : Change(files)
    \/ \E r \in requests, body \in Bodies : Done(r, body)
    \/ \E r \in requests : Fail(r)
    \/ Unload

Spec == Init /\ [][Next]_vars

\* The bodies of a server whose every msg is a non-empty string: the bodies
\* that do not parse and the objects with such a msg.
BodiesWithMsg ==
    { body \in Bodies :
          \/ JSONParse(body).type = "SyntaxError"
          \/ /\ Get(JSONParse(body), "msg").t = "string"
             /\ Get(JSONParse(body), "msg").v # "" }

NextMsg ==
    \/ \E files \in FileLists : Change(files)
    \/ \E r \in requests, body \in BodiesWithMsg : Done(r, body)
    \/ \E r \in requests : Fail(r)
    \/ Unload

\* The page with a server whose every msg is a non-empty string.
MsgSpec == Init /\ [][NextMsg]_vars

\* The answer to some request in flight arrives: a response or a failure.
Answer == \E r \in requests : Fail(r) \/ \E body \in Bodies : Done(r, body)

\* The page under the assumption that the server answers every request.
FairSpec == Spec /\ WF_vars(Answer)

\* ================================================================ claims
\* The selected file, when there is one.
SelectedFile == uploadFileInput.files[1]

\* The position of the final '.' of a name, 0 when it has none.
FinalDot(name) ==
    IF \A i \in 1..Len(name) : name[i] # "."
    THEN 0
    ELSE CHOOSE i \in 1..Len(name) :
             name[i] = "." /\ \A j \in (i + 1)..Len(name) : name[j] # "."

\* The part of a name after its final '.', in upper case (the whole name
\* when it has no '.').
UpperSuffix(name) ==
    LET suffix == SubSeq(name, FinalDot(name) + 1, Len(name))
    IN  [i \in 1..Len(suffix) |-> toUpperCaseChar(suffix[i])]

\* The name's extension is one of the accepted file types.
AcceptedName(name) ==
    \E i \in DOMAIN ACCEPTED_FILE_TYPES : ACCEPTED_FILE_TYPES[i] = UpperSuffix(name)

\* The last task was the change handler.
ChangeHandled == last.kind = "change"

\* The change handler that ran last issued no request.
NothingIssued ==
    /\ last.issued = {}
    /\ \A r \in requests : r.id # last.id

\* The outcome text box shows a message with the error class alone.
InErrorState == outcomeText.classes = {ErrorText} /\ outcomeText.text # ""

\* C1: the outcome text box never carries both the error class and the
\* success class at the same time.
C1_ClassesExclusive == ~({ErrorText, SuccessText} \subseteq outcomeText.classes)

\* C2: after a change event handled with no file selected, the outcome text
\* box shows exactly "You must select a file." with the error class alone,
\* and that invocation issued no request.
C2_NoFileRejected ==
    (ChangeHandled /\ uploadFileInput.files = <<>>)
        => /\ outcomeText = [text |-> "You must select a file.",
                             classes |-> {ErrorText}]
           /\ NothingIssued

\* C2 witness: a no-file change event handled while the box showed a
\* server error.
C2_Witness ==
    /\ ChangeHandled
    /\ uploadFileInput.files = <<>>
    /\ last.before = [text |-> "bad format", classes |-> {ErrorText}]
    /\ outcomeText.text = NoFileMsg

\* C3: after a change event with a file whose upper-cased extension is not an
\* accepted type, whatever its size, the outcome text box is in error state
\* and that invocation issued no request.
C3_BadExtensionRejected ==
    (ChangeHandled /\ Len(uploadFileInput.files) = 1
                   /\ ~AcceptedName(SelectedFile.name))
        => InErrorState /\ NothingIssued

\* C3 witness: a file of a size within the limit rejected for its extension.
C3_Witness ==
    /\ ChangeHandled
    /\ Len(uploadFileInput.files) = 1
    /\ ~AcceptedName(SelectedFile.name)
    /\ SelectedFile.size <= MAX_AUDIO_FILE_SIZE_Value
    /\ outcomeText.text = BadTypeMsg

\* C4: after a change event with a file of more than MAX_AUDIO_FILE_SIZE
\* bytes, the outcome text box is in error state and that invocation issued
\* no request.
C4_TooBigRejected ==
    (ChangeHandled /\ Len(uploadFileInput.files) = 1
                   /\ SelectedFile.size > MAX_AUDIO_FILE_SIZE_Value)
        => InErrorState /\ NothingIssued

\* C4 witness: a file with an accepted extension rejected for its size.
C4_Witness ==
    /\ ChangeHandled
    /\ Len(uploadFileInput.files) = 1
    /\ AcceptedName(SelectedFile.name)
    /\ SelectedFile.size > MAX_AUDIO_FILE_SIZE_Value
    /\ outcomeText.text = TooBigMsg

\* C5: a change event with a file that has an accepted extension and a size
\* of at most MAX_AUDIO_FILE_SIZE bytes issues exactly one request: a POST to
\* /api/upload-file carrying that file under the field "file".
C5_ValidFileOnePost ==
    (ChangeHandled /\ Len(uploadFileInput.files) = 1
                   /\ AcceptedName(SelectedFile.name)
                   /\ SelectedFile.size <= MAX_AUDIO_FILE_SIZE_Value)
        => /\ Cardinality(last.issued) = 1
           /\ \A r \in last.issued :
                  /\ r.settings.url = "/api/upload-file"
                  /\ r.settings.method = "POST"
                  /\ r.settings.data = [file |-> SelectedFile]
           /\ { r \in requests : r.id = last.id } = last.issued

\* C5 witness: a file of exactly the limit is uploaded.
C5_Witness ==
    /\ ChangeHandled
    /\ Len(uploadFileInput.files) = 1
    /\ SelectedFile.size = MAX_AUDIO_FILE_SIZE_Value
    /\ Cardinality(last.issued) = 1

\* The last task was the .done callback, and JSON.parse returned a value.
ResponseHandled ==
    last.kind = "done" /\ JSONParse(last.body).type # "SyntaxError"

\* The members of the response handled last.
ResponseOutcome == Get(JSONParse(last.body), "outcome")
ResponseMsg == Get(JSONParse(last.body), "msg")
ResponseUrl == Get(JSONParse(last.body), "url")

C8_NoResidualClass ==
    ChangeHandled
        => outcomeText.classes =
               IF invocations[last.id] = "Rejected" THEN {ErrorText} ELSE {}

\* C8 witness: a rejected pass followed by a pass that accepted the file; the
\* error class of the first is gone.
C8_Witness ==
    /\ ChangeHandled
    /\ last.id >= 2
    /\ invocations[last.id - 1] = "Rejected"
    /\ invocations[last.id] = "Uploading"
    /\ last.before.classes = {ErrorText}
    /\ outcomeText.classes = {}

\* C9: between two resets of the outcome text box at most one message and
\* class update is applied to it.
C9_AtMostOneUpdatePerPass == updates <= 1

\* An upload request carries a file that passes the three checks.
RequestValidated(r) ==
    /\ AcceptedName(r.settings.data.file.name)
    /\ r.settings.data.file.size <= MAX_AUDIO_FILE_SIZE_Value

\* C10, the states: every request in flight was issued by an invocation that
\* is uploading, for a file that passes the checks; a rejected invocation has
\* no request.
C10_RequestsValidated ==
    \A r \in requests :
        /\ r.id \in DOMAIN invocations
        /\ invocations[r.id] = "Uploading"
        /\ RequestValidated(r)

\* C10, the steps: an invocation starts Rejected or Uploading, a request is
\* issued only by an invocation that passed the checks, Rejected never
\* changes, an invocation ends only from Uploading and by its request's
\* answer, and the location changes only when a response with an outcome
\* other than "error" to a request in flight is handled.
C10_Steps ==
    /\ \A i \in DOMAIN invocations' \ DOMAIN invocations :
           /\ invocations'[i] \in {"Rejected", "Uploading"}
           /\ invocations'[i] = "Uploading"
                  <=> \E r \in requests' \ requests : r.id = i
           /\ invocations'[i] = "Uploading"
                  => /\ Len(uploadFileInput'.files) = 1
                     /\ AcceptedName(uploadFileInput'.files[1].name)
                     /\ uploadFileInput'.files[1].size <= MAX_AUDIO_FILE_SIZE_Value
    /\ \A r \in requests' \ requests : r.id \notin DOMAIN invocations
    /\ \A i \in DOMAIN invocations :
           /\ invocations[i] = "Rejected" => invocations'[i] = "Rejected"
           /\ invocations'[i] # invocations[i]
                  => /\ invocations[i] = "Uploading"
                     /\ \E r \in requests \ requests' : r.id = i
    /\ \A i \in DOMAIN invocations :
           (invocations'[i] = "Succeeded" /\ invocations[i] # "Succeeded")
               => /\ last'.kind = "done" /\ last'.id = i
                  /\ JSONParse(last'.body).type # "SyntaxError"
                  /\ Get(JSONParse(last'.body), "outcome") # Str("error")
    /\ location' # location
           => \E r \in requests \ requests' :
                  /\ invocations[r.id] = "Uploading"
                  /\ invocations'[r.id] = "Succeeded"

\* C10: every invocation follows Rejected | Uploading -> Succeeded | Failed:
\* no request before the three checks passed, no upload after a rejection,
\* no navigation without a request and a non-error response to it.
C10_StateMachine == [][C10_Steps]_vars /\ []C10_RequestsValidated

\* C10 witness: one invocation was rejected, a later one uploaded and its
\* success response navigated the browser.
C10_Witness ==
    /\ \E i, j \in DOMAIN invocations :
           i < j /\ invocations[i] = "Rejected" /\ invocations[j] = "Succeeded"
    /\ location = "/next"

\* The selection passes the three checks.
ValidSelection(files) ==
    /\ Len(files) = 1
    /\ AcceptedName(files[1].name)
    /\ files[1].size <= MAX_AUDIO_FILE_SIZE_Value

\* The invocations that have ended by an answer to their request.
Answered ==
    { i \in DOMAIN invocations :
          invocations[i] \in {"Succeeded", "Failed", "Unhandled"} }

\* C11, the steps: a change event leaves every request in flight where it is
\* and, when the new selection is valid, adds one request of its own; a
\* request leaves only in the task that handles its own answer.
C11_ChangeKeepsRequests ==
    /\ (last'.kind = "change" /\ last' # last)
           => /\ requests \subseteq requests'
              /\ Cardinality(requests' \ requests) =
                     IF ValidSelection(uploadFileInput'.files) THEN 1 ELSE 0
    /\ \A r \in requests \ requests' :
           /\ last'.kind \in {"done", "fail"}
           /\ last'.id = r.id
           /\ invocations'[r.id] \in {"Succeeded", "Failed", "Unhandled"}

\* C11, the states: the requests in flight and the requests answered are as
\* many as the change events that passed validation, and every uploading
\* invocation has its request in flight.
C11_EveryRequestCounted ==
    /\ Cardinality(requests) + Cardinality(Answered) =
           Cardinality({ i \in DOMAIN invocations : invocations[i] # "Rejected" })
    /\ \A i \in DOMAIN invocations :
           invocations[i] = "Uploading" <=> \E r \in requests : r.id = i

\* C11: a change event handled while an earlier request is in flight neither
\* cancels nor replaces that request; requests issued equal change events
\* that passed validation, and a request in flight stays until its own
\* answer is handled.
C11_NoCancellation == [][C11_ChangeKeepsRequests]_vars /\ []C11_EveryRequestCounted

\* C11 witness: the response to the first request has been handled after a
\* later valid change event, whose own request is still in flight.
C11_Witness ==
    /\ last.kind = "done"
    /\ last.id = 1
    /\ \E r \in requests : r.id > 1
    /\ Cardinality(requests) + Cardinality(Answered) >= 2

\* C12: when an upload ends in a network failure, a non-2xx status or a body
\* that is not valid JSON, the outcome text box and the page location are
\* what they were before.
C12_UnhandledFailureSilent ==
    (\/ last.kind = "fail"
     \/ last.kind = "done" /\ JSONParse(last.body).type = "SyntaxError")
        => /\ outcomeText = last.before
           /\ location = last.hrefBefore

\* C12 witness: a body that is not valid JSON arrived for the only request;
\* the box still has the empty text and no class left by the validation pass.
C12_Witness ==
    /\ last.kind = "done"
    /\ JSONParse(last.body).type = "SyntaxError"
    /\ last.body # <<>>
    /\ invocations = <<"Unhandled">>
    /\ outcomeText = [text |-> "", classes |-> {}]
    /\ location = MainPage

\* The stage of the i-th invocation, Idle before its change event.
Stage(i) == IF i \in DOMAIN invocations THEN invocations[i] ELSE "Idle"

\* C13, the steps: an invocation leaves Uploading only in the task that
\* handles the answer to its own request, and the outcome text box changes
\* only in a change handler or a .done callback; no other step (no timeout)
\* exists.
C13_Steps ==
    /\ \A i \in DOMAIN invocations :
           (invocations[i] = "Uploading" /\ invocations'[i] # "Uploading")
               => /\ last'.kind \in {"done", "fail"}
                  /\ last'.id = i
                  /\ \E r \in requests \ requests' : r.id = i
    /\ \A r \in requests \cap requests' : invocations'[r.id] = "Uploading"
    /\ outcomeText' # outcomeText => last'.kind \in {"change", "done"}

\* C13: an invocation stays Uploading, and the outcome text box is left
\* alone, until the answer to its request arrives (or another change event
\* or response touches the box); given that the server answers every
\* request, an uploading invocation ends or the page is unloaded.
C13_NoTimeout ==
    /\ [][C13_Steps]_vars
    /\ \A i \in 1..MaxChanges :
           (Stage(i) = "Uploading") ~> (~loaded \/ Stage(i) # "Uploading")

\* C13 witness: the first request is still unanswered after a later request
\* was issued and failed; the box has the empty text and no class.
C13_Witness ==
    /\ Len(invocations) >= 2
    /\ invocations[1] = "Uploading"
    /\ \E r \in requests : r.id = 1
    /\ last.kind = "fail"
    /\ last.id = 2
    /\ outcomeText = [text |-> "", classes |-> {}]

\* C14: a rejected pass shows the message of the first failing check, in
\* the order no file, extension, size, and only that message: a file with a
\* disallowed extension and a size over the limit gets the accepted-types
\* message.
C14_FirstFailingCheckDecides ==
    ChangeHandled
        => /\ uploadFileInput.files = <<>>
                  => outcomeText.text = "You must select a file."
           /\ (Len(uploadFileInput.files) = 1 /\ ~AcceptedName(SelectedFile.name))
                  => outcomeText.text = BadTypeMsg
           /\ (/\ Len(uploadFileInput.files) = 1
               /\ AcceptedName(SelectedFile.name)
               /\ SelectedFile.size > MAX_AUDIO_FILE_SIZE_Value)
                  => outcomeText.text = TooBigMsg
           /\ ~ValidSelection(uploadFileInput.files)
                  => updates = 1 /\ outcomeText.classes = {ErrorText}

\* C14 witness: a file with a disallowed extension and a size over the limit
\* has been rejected with the accepted-types message.
C14_Witness ==
    /\ ChangeHandled
    /\ Len(uploadFileInput.files) = 1
    /\ ~AcceptedName(SelectedFile.name)
    /\ SelectedFile.size > MAX_AUDIO_FILE_SIZE_Value
    /\ outcomeText.text = BadTypeMsg
    /\ outcomeText.text # TooBigMsg

\* Two names differ at most in the letter case of the part after the final
\* '.'.
SameUpToExtensionCase(n1, n2) ==
    /\ Len(n1) = Len(n2)
    /\ FinalDot(n1) = FinalDot(n2)
    /\ FinalDot(n1) > 0
    /\ \A i \in 1..FinalDot(n1) : n1[i] = n2[i]
    /\ \A i \in (FinalDot(n1) + 1)..Len(n1) :
           toUpperCaseChar(n1[i]) = toUpperCaseChar(n2[i])

\* C15: for a name with a '.', the extension the check uses is the part
\* after the final '.' in upper case, and every name that differs from the
\* selected one only in the letter case of that part gets from the extension
\* check the verdict the handler gave the selected file.
C15_ExtensionCaseInsensitive ==
    (ChangeHandled /\ Len(uploadFileInput.files) = 1)
        => /\ FinalDot(SelectedFile.name) > 0
                  => extension(SelectedFile) = UpperSuffix(SelectedFile.name)
           /\ \A n \in FileNames :
                  SameUpToExtensionCase(SelectedFile.name, n)
                      => (badExtension([files |-> <<[name |-> n,
                                                     size |-> SelectedFile.size]>>])
                             <=> outcomeText.text = BadTypeMsg)

\* C15 witness: a file is uploaded whose name has a twin that differs only
\* in the letter case of the extension.
C15_Witness ==
    /\ ChangeHandled
    /\ Len(uploadFileInput.files) = 1
    /\ last.issued # {}
    /\ \E n \in FileNames :
           n # SelectedFile.name /\ SameUpToExtensionCase(SelectedFile.name, n)

\* The response handled last answers a request of an invocation that was
\* no longer the latest one.
StaleResponseHandled == ResponseHandled /\ last.id < Len(invocations)

\* C16: a response to the request of an earlier invocation is applied like
\* any other: its class is added to the classes the later passes left (none
\* is removed), its msg replaces the text, and an outcome other than "error"
\* sets the page location.
C16_StaleResponseApplied ==
    StaleResponseHandled
        => /\ last.before.classes \subseteq outcomeText.classes
           /\ outcomeText.classes \ last.before.classes
                  \subseteq {IF ResponseOutcome = Str("error")
                             THEN ErrorText ELSE SuccessText}
           /\ (IF ResponseOutcome = Str("error") THEN ErrorText ELSE SuccessText)
                  \in outcomeText.classes
           /\ outcomeText.text =
                  IF ResponseMsg.t = "string" THEN ResponseMsg.v
                  ELSE last.before.text
           /\ (ResponseOutcome # Str("error") /\ ResponseUrl.t = "string")
                  => location = ResponseUrl.v
           /\ ResponseOutcome = Str("error") => location = last.hrefBefore

\* C16 witness: the success response to the first request arrived after a
\* later pass was rejected; its class sits next to the error class of that
\* pass.
C16_Witness ==
    /\ StaleResponseHandled
    /\ last.id = 1
    /\ invocations[Len(invocations)] = "Rejected"
    /\ last.before.classes = {ErrorText}
    /\ last.before.text = NoFileMsg
    /\ outcomeText = [text |-> "done", classes |-> {ErrorText, SuccessText}]

\* C17: with a server whose every msg is a non-empty string, after every
\* task the text of the outcome text box is non-empty exactly when the box
\* carries a style class.
C17_TextIffClass == (outcomeText.text # "") <=> (outcomeText.classes # {})

\* C17 witness: a server error is shown with its class, after a pass that
\* had left the box with no text and no class.
C17_Witness ==
    /\ last.kind = "done"
    /\ last.before = [text |-> "", classes |-> {}]
    /\ outcomeText = [text |-> "bad format", classes |-> {ErrorText}]

\* A whole name in upper case.
WholeNameUpper(name) == [i \in 1..Len(name) |-> toUpperCaseChar(name[i])]

\* C18: for a selected file whose name has no '.', the extension the check
\* uses is the whole name in upper case, and the file passes the extension
\* check exactly when that is one of the accepted file types.
C18_NoDotWholeName ==
    (ChangeHandled /\ Len(uploadFileInput.files) = 1
                   /\ FinalDot(SelectedFile.name) = 0)
        => /\ extension(SelectedFile) = WholeNameUpper(SelectedFile.name)
           /\ outcomeText.text # BadTypeMsg
                  <=> \E i \in DOMAIN ACCEPTED_FILE_TYPES :
                          ACCEPTED_FILE_TYPES[i] = WholeNameUpper(SelectedFile.name)

\* C18 witness: the file named "wav" has been accepted and uploaded.
C18_Witness ==
    /\ ChangeHandled
    /\ Len(uploadFileInput.files) = 1
    /\ SelectedFile.name = <<"w", "a", "v">>
    /\ last.issued # {}
    /\ outcomeText.text = ""

====
